---- MODULE Spec2Model ----
(***************************************************************************)
(* A model of src/bot.py, the lum discord bot: the on_message dispatcher,  *)
(* its command handlers, the four SQLite tables they read and write, and   *)
(* the executors (text generation, image generation, GIF search) they      *)
(* call.                                                                   *)
(*                                                                         *)
(* Text is a sequence of one-character strings, so that prefix tests,      *)
(* slicing, lower(), strip() and the regular expressions of the source are *)
(* computed character by character.                                        *)
(*                                                                         *)
(* Every handler is a coroutine scheduled as a task of its own by the      *)
(* event loop.  The SQLite calls, the openai calls and requests.get are    *)
(* synchronous, so a task gives up control only at "await message.reply"   *)
(* and "await message.channel.typing()".  One action of the model is one   *)
(* run of a task from one suspension point to the next.                    *)
(***************************************************************************)
EXTENDS Integers, Sequences, FiniteSets, TLC

\* ------------------------------------------------------------------ text

Min(S) == CHOOSE x \in S : \A y \in S : x <= y

Max(S) == CHOOSE x \in S : \A y \in S : x >= y

UpperSeq ==
    <<"A", "B", "C", "D", "E", "F", "G", "H", "I", "J", "K", "L", "M",
      "N", "O", "P", "Q", "R", "S", "T", "U", "V", "W", "X", "Y", "Z">>

LowerSeq ==
    <<"a", "b", "c", "d", "e", "f", "g", "h", "i", "j", "k", "l", "m",
      "n", "o", "p", "q", "r", "s", "t", "u", "v", "w", "x", "y", "z">>

Digits == {"0", "1", "2", "3", "4", "5", "6", "7", "8", "9"}

\* what \s matches and what str.strip() removes
WS == {" ", "\t", "\n"}

\* what \w matches; \b is a change of IsWordChar between two neighbours
IsWordChar(c) ==
    \/ \E i \in 1..26 : c = UpperSeq[i] \/ c = LowerSeq[i]
    \/ c \in Digits
    \/ c = "_"

LowerChar(c) ==
    IF \E i \in 1..26 : c = UpperSeq[i]
    THEN LowerSeq[CHOOSE i \in 1..26 : c = UpperSeq[i]]
    ELSE c

\* str.lower()
lower(s) == [i \in 1..Len(s) |-> LowerChar(s[i])]

\* str.strip()
strip(s) ==
    LET keep == {i \in 1..Len(s) : s[i] \notin WS}
    IN  IF keep = {} THEN <<>> ELSE SubSeq(s, Min(keep), Max(keep))

\* s[n:]
Drop(s, n) == IF n >= Len(s) THEN <<>> ELSE SubSeq(s, n + 1, Len(s))

\* sub occurs in s at position p
Occurs(s, sub, p) ==
    /\ p >= 1
    /\ p + Len(sub) - 1 <= Len(s)
    /\ SubSeq(s, p, p + Len(sub) - 1) = sub

\* str.startswith
startswith(s, prefix) == Occurs(s, prefix, 1)

\* str.endswith
endswith(s, suffix) == Occurs(s, suffix, Len(s) - Len(suffix) + 1)

\* sub in s
contains(s, sub) == \E p \in 1..Len(s) : Occurs(s, sub, p)

\* s.split(sub, 1)[0], for a sub that s contains
BeforeFirst(s, sub) ==
    LET p == Min({q \in 1..Len(s) : Occurs(s, sub, q)})
    IN  SubSeq(s, 1, p - 1)

\* the length of the longest run of whitespace of s that starts at position t
WsRun(s, t) ==
    Max({k \in 0..(IF t > Len(s) THEN 0 ELSE Len(s) - t + 1) :
            \A i \in t..(t + k - 1) : s[i] \in WS})

\* the last position of the line of s that position a is on ('.' stops at "\n")
LineEnd(s, a) == Max({e \in a..Len(s) : \A i \in a..e : s[i] # "\n"})

NoMatch == [ok |-> FALSE, g1 |-> <<>>, g2 |-> <<>>]

\* The regular expression \s+(.+) anchored at position t of s: both are greedy,
\* so the whitespace run is as long as it can be while one character that is
\* not a line break is left for the group, which then runs to the end of its
\* line.  The result is the group's first position, or 0 for no match.
TailStart(s, t) ==
    LET k == WsRun(s, t)
        back == {j \in 1..(k - 1) : s[t + j] # "\n"}
    IN  IF k = 0 THEN 0
        ELSE IF t + k <= Len(s) THEN t + k
        ELSE IF back = {} THEN 0
        ELSE t + Max(back)

TailGroup(s, t) == SubSeq(s, TailStart(s, t), LineEnd(s, TailStart(s, t)))

\* A function of a finite set, worked out once for every argument when it is
\* first used: TLC works out f @@ g as a table, and only a table keeps its
\* values from one application to the next.
Tabled(f) == f @@ [x \in {} |-> x]

\* ------------------------------------------------- literals of the source

TokSetChannel == <<"!", "s", "e", "t", "c", "h", "a", "n", "n", "e", "l">>

TokSetLanguage == <<"l", "u", "m", " ", "s", "e", "t", " ", "l", "a", "n", "g", "u", "a", "g", "e", " ", "t", "o">>

TokGif == <<"!", "g", "i", "f">>

TokImg == <<"!", "i", "m", "g">>

TokSetOpinion == <<"l", "u", "m", " ", "s", "e", "t", " ", "y", "o", "u", "r", " ", "o", "p", "i", "n", "i", "o", "n", " ", "o", "n">>

TokLumWhat == <<"l", "u", "m", " ", "w", "h", "a", "t">>

TokYourOpinionOn == <<"y", "o", "u", "r", " ", "o", "p", "i", "n", "i", "o", "n", " ", "o", "n">>

TokWithAGif == <<"w", "i", "t", "h", " ", "a", " ", "g", "i", "f">>

TokAsAGif == <<"a", "s", " ", "a", " ", "g", "i", "f">>

TokGiveMe == <<"g", "i", "v", "e", " ", "m", "e">>

TokRandomGif == <<"r", "a", "n", "d", "o", "m", " ", "g", "i", "f">>

TokLum == <<"l", "u", "m">>

TokGenerate == <<"g", "e", "n", "e", "r", "a", "t", "e">>

KeyLanguage == <<"l", "a", "n", "g", "u", "a", "g", "e">>

KeyUserName == <<"u", "s", "e", "r", "_", "n", "a", "m", "e">>

\* (hello|hi|hey|yo|sup)
Greetings ==
    {<<"h", "e", "l", "l", "o">>,
     <<"h", "i">>,
     <<"h", "e", "y">>,
     <<"y", "o">>,
     <<"s", "u", "p">>}

trigger_keywords ==
    {<<"l", "u", "m">>,
     <<"b", "o", "t">>,
     <<"q", "u", "e", "s", "t", "i", "o", "n">>,
     <<"h", "e", "l", "p">>,
     <<"h", "o", "w", " ", "a", "r", "e", " ", "y", "o", "u">>,
     <<"w", "h", "a", "t", "'", "s">>,
     <<"w", "h", "a", "t", "s">>,
     <<"w", "h", "o">>,
     <<"d", "e", "f", "i", "n", "e">>,
     <<"e", "x", "p", "l", "a", "i", "n">>}

\* (?:'s|s| is)
WhatForms ==
    {<<"'", "s">>,
     <<"s">>,
     <<" ", "i", "s">>}

\* (?:to|as)
Connectors ==
    {<<"t", "o">>,
     <<"a", "s">>}

\* ----------------------------------------------------- message detection

\* ^(hello|hi|hey|yo|sup) lum\b
GreetsLum(content) ==
    \E g \in Greetings :
        LET n == Len(g) + 4
        IN  /\ startswith(content, g \o <<" ">> \o TokLum)
            /\ (n = Len(content) \/ ~IsWordChar(content[n + 1]))

\* ^(hello|hi|hey|yo|sup)\s*$
GreetsAlone(content) ==
    \E g \in Greetings :
        /\ startswith(content, g)
        /\ \A i \in (Len(g) + 1)..Len(content) : content[i] \in WS

\* ^(hello|hi|hey|yo|sup)\s+\S+
GreetsOther(content) ==
    \E g \in Greetings :
        /\ startswith(content, g)
        /\ WsRun(content, Len(g) + 1) >= 1
        /\ Len(g) + WsRun(content, Len(g) + 1) < Len(content)

\* is_message_directed_at_bot with the trigger words and the question mark
\* tested before the greeting of somebody else
directed_triggers_first(message) ==
    LET content == strip(lower(message.content))
    IN  IF message.dm THEN TRUE
        ELSE IF message.mention THEN TRUE
        ELSE IF GreetsLum(content) \/ GreetsAlone(content) THEN TRUE
        ELSE IF \E word \in trigger_keywords : startswith(content, word) THEN TRUE
        ELSE IF endswith(content, <<"?">>) THEN TRUE
        ELSE IF GreetsOther(content) THEN FALSE
        ELSE FALSE

\* is_message_directed_at_bot with the greeting of somebody else tested before
\* the kind of channel
directed_greeting_first(message) ==
    LET content == strip(lower(message.content))
    IN  IF GreetsOther(content) /\ ~GreetsLum(content) THEN FALSE
        ELSE IF message.dm THEN TRUE
        ELSE IF message.mention THEN TRUE
        ELSE IF GreetsLum(content) \/ GreetsAlone(content) THEN TRUE
        ELSE IF \E word \in trigger_keywords : startswith(content, word) THEN TRUE
        ELSE IF endswith(content, <<"?">>) THEN TRUE
        ELSE FALSE

is_message_directed_at_bot(message) ==
    LET content == strip(lower(message.content))
    IN  IF message.dm THEN TRUE
        ELSE IF message.mention THEN TRUE
        ELSE IF GreetsLum(content) \/ GreetsAlone(content) THEN TRUE
        ELSE IF GreetsOther(content) THEN FALSE
        ELSE IF \E word \in trigger_keywords : startswith(content, word) THEN TRUE
        ELSE IF endswith(content, <<"?">>) THEN TRUE
        ELSE FALSE

\* -------------------------------------- the handlers' regular expressions

\* \blum\s+generate\s+(.+) matches s at position p; the group starts at the
\* position TailStart gives
GenerateAt(s, p) ==
    LET a == p + Len(TokLum)
        b == a + WsRun(s, a)
    IN  /\ (p = 1 \/ ~IsWordChar(s[p - 1]))
        /\ Occurs(s, TokLum, p)
        /\ WsRun(s, a) >= 1
        /\ Occurs(s, TokGenerate, b)
        /\ TailStart(s, b + Len(TokGenerate)) # 0

\* re.search(r'\blum\s+generate\s+(.+)', s): the leftmost match
generate_match(s) ==
    LET P == {p \in 1..Len(s) : GenerateAt(s, p)}
        p == Min(P)
        b == p + Len(TokLum) + WsRun(s, p + Len(TokLum))
    IN  IF P = {} THEN NoMatch
        ELSE [ok |-> TRUE, g1 |-> TailGroup(s, b + Len(TokGenerate)), g2 |-> <<>>]

\* lum set your opinion on\s+(.+?)\s+(?:to|as)\s+(.+) with re.IGNORECASE matches
\* s at position p with j whitespace characters before the subject and the
\* subject ending at position e
SetOpinionAt(s, p, j, e) ==
    LET a == p + Len(TokSetOpinion)
        c == e + 1 + WsRun(s, e + 1)
    IN  /\ Occurs(lower(s), TokSetOpinion, p)
        /\ j >= 1 /\ j <= WsRun(s, a)
        /\ e >= a + j /\ e <= Len(s)
        /\ \A i \in (a + j)..e : s[i] # "\n"
        /\ WsRun(s, e + 1) >= 1
        /\ \E w \in Connectors : Occurs(lower(s), w, c)
        /\ TailStart(s, c + 2) # 0

\* re.search of that pattern: the leftmost position, then the longest run of
\* whitespace (\s+ is greedy), then the shortest subject ((.+?) is lazy)
set_opinion_match(s) ==
    LET starts == {p \in 1..Len(s) : Occurs(lower(s), TokSetOpinion, p)}
        Js(p) == 1..WsRun(s, p + Len(TokSetOpinion))
        Es(p) == (p + Len(TokSetOpinion) + 1)..Len(s)
        P == {p \in starts : \E j \in Js(p), e \in Es(p) : SetOpinionAt(s, p, j, e)}
        p == Min(P)
        j == Max({jj \in Js(p) : \E e \in Es(p) : SetOpinionAt(s, p, jj, e)})
        e == Min({ee \in Es(p) : SetOpinionAt(s, p, j, ee)})
    IN  IF P = {} THEN NoMatch
        ELSE [ok |-> TRUE,
              g1 |-> SubSeq(s, p + Len(TokSetOpinion) + j, e),
              g2 |-> TailGroup(s, e + 1 + WsRun(s, e + 1) + 2)]

\* lum what(?:'s|s| is) your opinion on\s+(.+) with re.IGNORECASE matches s at
\* position p with the form w of "what is"
GetOpinionAt(s, p, w) ==
    LET lit == TokLumWhat \o w \o <<" ">> \o TokYourOpinionOn
    IN  /\ Occurs(lower(s), lit, p)
        /\ TailStart(s, p + Len(lit)) # 0

\* re.search of that pattern: the leftmost match
get_opinion_match(s) ==
    LET P == {p \in 1..Len(s) : \E w \in WhatForms : GetOpinionAt(s, p, w)}
        p == Min(P)
        w == CHOOSE x \in WhatForms : GetOpinionAt(s, p, x)
    IN  IF P = {} THEN NoMatch
        ELSE [ok |-> TRUE,
              g1 |-> TailGroup(s, p + Len(TokLumWhat) + Len(w) + 1 + Len(TokYourOpinionOn)),
              g2 |-> <<>>]

\* ------------------------------------------------------------ messages

\* The texts users send: one or two for every branch of on_message and of the
\* handlers it calls.

\* '!SetChannel'
TextSetChannel == <<"!", "S", "e", "t", "C", "h", "a", "n", "n", "e", "l">>

\* 'lum set language to French '
TextSetLanguage == <<"l", "u", "m", " ", "s", "e", "t", " ", "l", "a", "n", "g", "u", "a", "g", "e", " ", "t", "o", " ", "F", "r", "e", "n", "c", "h", " ">>

\* 'Lum set language to '
TextSetLanguageEmpty == <<"L", "u", "m", " ", "s", "e", "t", " ", "l", "a", "n", "g", "u", "a", "g", "e", " ", "t", "o", " ">>

\* '!gif cat'
TextGif == <<"!", "g", "i", "f", " ", "c", "a", "t">>

\* '!gif'
TextGifEmpty == <<"!", "g", "i", "f">>

\* '!img cat'
TextImg == <<"!", "i", "m", "g", " ", "c", "a", "t">>

\* '!img '
TextImgEmpty == <<"!", "i", "m", "g", " ">>

\* 'lum set your opinion on tea to ok'
TextSetOpinion == <<"l", "u", "m", " ", "s", "e", "t", " ", "y", "o", "u", "r", " ", "o", "p", "i", "n", "i", "o", "n", " ", "o", "n", " ", "t", "e", "a", " ", "t", "o", " ", "o", "k">>

\* 'lum set your opinion on tea'
TextSetOpinionBad == <<"l", "u", "m", " ", "s", "e", "t", " ", "y", "o", "u", "r", " ", "o", "p", "i", "n", "i", "o", "n", " ", "o", "n", " ", "t", "e", "a">>

\* "lum what's your opinion on tea"
TextGetOpinion == <<"l", "u", "m", " ", "w", "h", "a", "t", "'", "s", " ", "y", "o", "u", "r", " ", "o", "p", "i", "n", "i", "o", "n", " ", "o", "n", " ", "t", "e", "a">>

\* 'lum what of your opinion on tea'
TextGetOpinionBad == <<"l", "u", "m", " ", "w", "h", "a", "t", " ", "o", "f", " ", "y", "o", "u", "r", " ", "o", "p", "i", "n", "i", "o", "n", " ", "o", "n", " ", "t", "e", "a">>

\* 'lum generate a Cat '
TextGenerate == <<"l", "u", "m", " ", "g", "e", "n", "e", "r", "a", "t", "e", " ", "a", " ", "C", "a", "t", " ">>

\* 'lum generate '
TextGenerateEmpty == <<"l", "u", "m", " ", "g", "e", "n", "e", "r", "a", "t", "e", " ">>

\* 'lum wave with a gif'
TextWithGif == <<"l", "u", "m", " ", "w", "a", "v", "e", " ", "w", "i", "t", "h", " ", "a", " ", "g", "i", "f">>

\* 'lum as a gif'
TextAsGif == <<"l", "u", "m", " ", "a", "s", " ", "a", " ", "g", "i", "f">>

\* 'lum give me a random gif'
TextRandomGif == <<"l", "u", "m", " ", "g", "i", "v", "e", " ", "m", "e", " ", "a", " ", "r", "a", "n", "d", "o", "m", " ", "g", "i", "f">>

\* 'lum hello'
TextChat == <<"l", "u", "m", " ", "h", "e", "l", "l", "o">>

\* 'hi john, how are you?'
TextGreetOther == <<"h", "i", " ", "j", "o", "h", "n", ",", " ", "h", "o", "w", " ", "a", "r", "e", " ", "y", "o", "u", "?">>

\* 'nice day'
TextIdle == <<"n", "i", "c", "e", " ", "d", "a", "y">>

Texts ==
    {TextSetChannel,
     TextSetLanguage,
     TextSetLanguageEmpty,
     TextGif,
     TextGifEmpty,
     TextImg,
     TextImgEmpty,
     TextSetOpinion,
     TextSetOpinionBad,
     TextGetOpinion,
     TextGetOpinionBad,
     TextGenerate,
     TextGenerateEmpty,
     TextWithGif,
     TextAsGif,
     TextRandomGif,
     TextChat,
     TextGreetOther,
     TextIdle}

\* Who sends a message and where: a user in a one-to-one channel, the same user
\* in a guild channel, a second user who mentions the bot in another guild
\* channel, and another bot.
Sources ==
    {[author |-> "u1", bot |-> FALSE, channel |-> "d1", guild |-> FALSE, dm |-> TRUE,
      mention |-> FALSE, name |-> "none"],
     [author |-> "u1", bot |-> FALSE, channel |-> "g1", guild |-> TRUE, dm |-> FALSE,
      mention |-> FALSE, name |-> "general"],
     [author |-> "u2", bot |-> FALSE, channel |-> "g2", guild |-> TRUE, dm |-> FALSE,
      mention |-> TRUE, name |-> "random"],
     [author |-> "b1", bot |-> TRUE, channel |-> "g1", guild |-> TRUE, dm |-> FALSE,
      mention |-> FALSE, name |-> "lobby"]}

Message(src, text) ==
    [author |-> src.author, bot |-> src.bot, channel |-> src.channel,
     guild |-> src.guild, dm |-> src.dm, mention |-> src.mention,
     name |-> src.name, content |-> text]

Messages == {Message(src, text) : src \in Sources, text \in Texts}

\* Further texts for handle_set_opinion and handle_get_opinion: the connector
\* in capitals, twice, inside a word, followed by a second line or by blanks
\* only, with nothing before it; and the subject "language".

\* 'lum set your opinion on tea to ok\nnot bad'
OpinionLines == <<"l", "u", "m", " ", "s", "e", "t", " ", "y", "o", "u", "r", " ", "o", "p", "i", "n", "i", "o", "n", " ", "o", "n", " ", "t", "e", "a", " ", "t", "o", " ", "o", "k", "\n", "n", "o", "t", " ", "b", "a", "d">>

\* 'lum set your opinion on tea to  '
OpinionBlank == <<"l", "u", "m", " ", "s", "e", "t", " ", "y", "o", "u", "r", " ", "o", "p", "i", "n", "i", "o", "n", " ", "o", "n", " ", "t", "e", "a", " ", "t", "o", " ", " ">>

\* 'lum set your opinion on language to ok'
OpinionLanguage == <<"l", "u", "m", " ", "s", "e", "t", " ", "y", "o", "u", "r", " ", "o", "p", "i", "n", "i", "o", "n", " ", "o", "n", " ", "l", "a", "n", "g", "u", "a", "g", "e", " ", "t", "o", " ", "o", "k">>

\* "lum what's your opinion on language"
GetOpinionLanguage == <<"l", "u", "m", " ", "w", "h", "a", "t", "'", "s", " ", "y", "o", "u", "r", " ", "o", "p", "i", "n", "i", "o", "n", " ", "o", "n", " ", "l", "a", "n", "g", "u", "a", "g", "e">>

OpinionTexts ==
    {TextSetOpinion,
     TextSetOpinionBad,
     TextGetOpinion,
     TextSetLanguage,
     (* 'Lum Set your opinion on Green Tea AS  so so ' *)
     <<"L", "u", "m", " ", "S", "e", "t", " ", "y", "o", "u", "r", " ", "o", "p", "i", "n", "i", "o", "n", " ", "o", "n", " ", "G", "r", "e", "e", "n", " ", "T", "e", "a", " ", "A", "S", " ", " ", "s", "o", " ", "s", "o", " ">>,
     (* 'lum set your opinion on how to cook to fun' *)
     <<"l", "u", "m", " ", "s", "e", "t", " ", "y", "o", "u", "r", " ", "o", "p", "i", "n", "i", "o", "n", " ", "o", "n", " ", "h", "o", "w", " ", "t", "o", " ", "c", "o", "o", "k", " ", "t", "o", " ", "f", "u", "n">>,
     (* 'lum set your opinion on tomato to red' *)
     <<"l", "u", "m", " ", "s", "e", "t", " ", "y", "o", "u", "r", " ", "o", "p", "i", "n", "i", "o", "n", " ", "o", "n", " ", "t", "o", "m", "a", "t", "o", " ", "t", "o", " ", "r", "e", "d">>,
     OpinionLines,
     OpinionBlank,
     (* 'lum set your opinion on to ok' *)
     <<"l", "u", "m", " ", "s", "e", "t", " ", "y", "o", "u", "r", " ", "o", "p", "i", "n", "i", "o", "n", " ", "o", "n", " ", "t", "o", " ", "o", "k">>,
     OpinionLanguage,
     GetOpinionLanguage,
     (* 'lum whats your opinion on tomato' *)
     <<"l", "u", "m", " ", "w", "h", "a", "t", "s", " ", "y", "o", "u", "r", " ", "o", "p", "i", "n", "i", "o", "n", " ", "o", "n", " ", "t", "o", "m", "a", "t", "o">>}

\* Further texts for the order of on_message's tests: texts that pass two of
\* them, and texts that pass a test of the natural-language commands without
\* being directed at the bot.

\* '!gif lum generate a cat'
DispatchGifGenerate == <<"!", "g", "i", "f", " ", "l", "u", "m", " ", "g", "e", "n", "e", "r", "a", "t", "e", " ", "a", " ", "c", "a", "t">>

\* 'lum generate a cat as a gif'
DispatchGenerateGif == <<"l", "u", "m", " ", "g", "e", "n", "e", "r", "a", "t", "e", " ", "a", " ", "c", "a", "t", " ", "a", "s", " ", "a", " ", "g", "i", "f">>

\* 'please lum generate a cat'
DispatchPleaseGenerate == <<"p", "l", "e", "a", "s", "e", " ", "l", "u", "m", " ", "g", "e", "n", "e", "r", "a", "t", "e", " ", "a", " ", "c", "a", "t">>

DispatchTexts ==
    {TextSetChannel,
     TextSetLanguage,
     TextGif,
     TextRandomGif,
     TextChat,
     TextGreetOther,
     TextIdle,
     DispatchGifGenerate,
     (* '!IMG a cat with a gif' *)
     <<"!", "I", "M", "G", " ", "a", " ", "c", "a", "t", " ", "w", "i", "t", "h", " ", "a", " ", "g", "i", "f">>,
     (* '!setchannel give me a random gif' *)
     <<"!", "s", "e", "t", "c", "h", "a", "n", "n", "e", "l", " ", "g", "i", "v", "e", " ", "m", "e", " ", "a", " ", "r", "a", "n", "d", "o", "m", " ", "g", "i", "f">>,
     (* 'lum set language to french as a gif' *)
     <<"l", "u", "m", " ", "s", "e", "t", " ", "l", "a", "n", "g", "u", "a", "g", "e", " ", "t", "o", " ", "f", "r", "e", "n", "c", "h", " ", "a", "s", " ", "a", " ", "g", "i", "f">>,
     (* 'lum set your opinion on art to lum generate it' *)
     <<"l", "u", "m", " ", "s", "e", "t", " ", "y", "o", "u", "r", " ", "o", "p", "i", "n", "i", "o", "n", " ", "o", "n", " ", "a", "r", "t", " ", "t", "o", " ", "l", "u", "m", " ", "g", "e", "n", "e", "r", "a", "t", "e", " ", "i", "t">>,
     (* "lum what's your opinion on tea as a gif" *)
     <<"l", "u", "m", " ", "w", "h", "a", "t", "'", "s", " ", "y", "o", "u", "r", " ", "o", "p", "i", "n", "i", "o", "n", " ", "o", "n", " ", "t", "e", "a", " ", "a", "s", " ", "a", " ", "g", "i", "f">>,
     DispatchGenerateGif,
     (* 'lum give me a random gif with a gif' *)
     <<"l", "u", "m", " ", "g", "i", "v", "e", " ", "m", "e", " ", "a", " ", "r", "a", "n", "d", "o", "m", " ", "g", "i", "f", " ", "w", "i", "t", "h", " ", "a", " ", "g", "i", "f">>,
     (* 'give me a random gif' *)
     <<"g", "i", "v", "e", " ", "m", "e", " ", "a", " ", "r", "a", "n", "d", "o", "m", " ", "g", "i", "f">>,
     DispatchPleaseGenerate,
     (* 'hi john, lum generate a cat?' *)
     <<"h", "i", " ", "j", "o", "h", "n", ",", " ", "l", "u", "m", " ", "g", "e", "n", "e", "r", "a", "t", "e", " ", "a", " ", "c", "a", "t", "?">>}

\* A further text for handle_bot_message: capitals, and blanks at both ends.

ConverseTexts ==
    {TextChat,
     TextIdle,
     (* ' Lum WHY? ' *)
     <<" ", "L", "u", "m", " ", "W", "H", "Y", "?", " ">>}

\* every text of the model
AllTexts == Texts \cup OpinionTexts \cup DispatchTexts \cup ConverseTexts

AllMessages == {Message(src, text) : src \in Sources, text \in AllTexts}

\* how many messages arrive in one run
MaxMessages == 2

\* What the executors answer.  The text-generation backend answers any string,
\* the empty one and one of blanks included.
GenTexts == {<<"O", "k", ".">>, <<" ">>}

Url == <<"u", "r", "l">>

\* ------------------------------------------------------------ the state

VARIABLES
    user_memory,            \* table user_memory: <<user_id, memory_key>> -> memory_value
    lum_preferences,        \* table lum_preferences: preference_key -> preference_value
    conversation_history,   \* table conversation_history, in the order of its id column
    allowed_channels,       \* table allowed_channels: channel_id -> channel_name
    GIPHY_API_KEY,          \* whether the environment sets GIPHY_API_KEY
    tasks,                  \* one on_message task per message, in the order of arrival
    probe,                  \* the argument of a function that is applied on its own
    verdict                 \* and what the function returned

vars ==
    <<user_memory, lum_preferences, conversation_history, allowed_channels,
      GIPHY_API_KEY, tasks, probe, verdict>>

stores == <<user_memory, lum_preferences, conversation_history, allowed_channels>>

\* ------------------------------------------------- the tables' functions

\* fetchone() of a SELECT: a row or None
None == [some |-> FALSE, v |-> <<>>]

Some(v) == [some |-> TRUE, v |-> v]

\* Python's truth value of "result[0] if result else None"
Truthy(o) == o.some /\ o.v # <<>>

get_user_memory(user_id, key) ==
    IF <<user_id, key>> \in DOMAIN user_memory
    THEN Some(user_memory[<<user_id, key>>])
    ELSE None

\* set_user_memory: INSERT ... ON CONFLICT(user_id, memory_key) DO UPDATE
set_user_memory(memory, user_id, key, value) ==
    [k \in DOMAIN memory \cup {<<user_id, key>>} |->
        IF k = <<user_id, key>> THEN value ELSE memory[k]]

\* INSERT ... ON CONFLICT(preference_key) DO UPDATE
set_lum_preference(prefs, key, value) ==
    [k \in DOMAIN prefs \cup {key} |-> IF k = key THEN value ELSE prefs[k]]

get_lum_preference(key) ==
    IF key \in DOMAIN lum_preferences THEN Some(lum_preferences[key]) ELSE None

add_conversation_message(log, user_id, role, content) ==
    Append(log, [user_id |-> user_id, role |-> role, content |-> content])

Reverse(s) == [i \in 1..Len(s) |-> s[Len(s) + 1 - i]]

\* get_conversation_history without rows.reverse()
get_conversation_history_newest_first(log, user_id, limit) ==
    LET mine == SelectSeq(log, LAMBDA row : row.user_id = user_id)
        desc == Reverse(mine)
        rows == SubSeq(desc, 1, IF Len(desc) < limit THEN Len(desc) ELSE limit)
    IN  [i \in 1..Len(rows) |-> [role |-> rows[i].role, content |-> rows[i].content]]

\* get_conversation_history without WHERE user_id = ?
get_conversation_history_all_users(log, user_id, limit) ==
    LET desc == Reverse(log)
        rows == SubSeq(desc, 1, IF Len(desc) < limit THEN Len(desc) ELSE limit)
    IN  [i \in 1..Len(rows) |->
            [role |-> Reverse(rows)[i].role, content |-> Reverse(rows)[i].content]]

\* SELECT role, content ... WHERE user_id = ? ORDER BY id DESC LIMIT ?, reversed
get_conversation_history(log, user_id, limit) ==
    LET mine == SelectSeq(log, LAMBDA row : row.user_id = user_id)
        desc == Reverse(mine)
        rows == SubSeq(desc, 1, IF Len(desc) < limit THEN Len(desc) ELSE limit)
    IN  [i \in 1..Len(rows) |->
            [role |-> Reverse(rows)[i].role, content |-> Reverse(rows)[i].content]]

\* add_allowed_channel with INSERT OR REPLACE
add_allowed_channel_replace(channels, channel_id, channel_name) ==
    [c \in DOMAIN channels \cup {channel_id} |->
        IF c = channel_id THEN channel_name ELSE channels[c]]

\* INSERT OR IGNORE
add_allowed_channel(channels, channel_id, channel_name) ==
    IF channel_id \in DOMAIN channels THEN channels
    ELSE [c \in DOMAIN channels \cup {channel_id} |->
            IF c = channel_id THEN channel_name ELSE channels[c]]

get_allowed_channels == DOMAIN allowed_channels

\* limit=10 of handle_bot_message
HistoryLimit == 10

\* -------------------------------------------------------------- dispatch

Call(handler, override, arg) == [handler |-> handler, override |-> override, arg |-> arg]

\* query of the "with a gif" / "as a gif" branch of on_message
gif_phrase_query(lower_content) ==
    LET parts0 == IF contains(lower_content, TokWithAGif)
                  THEN BeforeFirst(lower_content, TokWithAGif)
                  ELSE BeforeFirst(lower_content, TokAsAGif)
        query == strip(parts0)
    IN  IF startswith(query, TokLum) THEN strip(Drop(query, 3)) ELSE query

\* prompt of the "lum generate" branch of on_message: empty when the branch is
\* not taken
generate_prompt(lower_content) ==
    LET generate == generate_match(lower_content)
    IN  IF generate.ok THEN strip(generate.g1) ELSE <<>>

\* on_message from "if is_message_directed_at_bot(message)" on, for a message
\* that is: the natural-language commands, in their order
route_directed(message) ==
    LET lower_content == lower(message.content)
    IN  IF startswith(lower_content, TokSetOpinion)
        THEN Call("handle_set_opinion", FALSE, <<>>)
        ELSE IF startswith(lower_content, TokLumWhat)
                /\ contains(lower_content, TokYourOpinionOn)
        THEN Call("handle_get_opinion", FALSE, <<>>)
        ELSE IF generate_prompt(lower_content) # <<>>
        THEN Call("handle_image_generation", TRUE, generate_prompt(lower_content))
        ELSE IF contains(lower_content, TokWithAGif) \/ contains(lower_content, TokAsAGif)
        THEN IF gif_phrase_query(lower_content) # <<>>
             THEN Call("handle_gif_search", TRUE, gif_phrase_query(lower_content))
             ELSE Call("hint", FALSE, <<>>)
        ELSE IF contains(lower_content, TokGiveMe) /\ contains(lower_content, TokRandomGif)
        THEN Call("handle_random_gif", FALSE, <<>>)
        ELSE Call("handle_bot_message", FALSE, <<>>)

\* route_allowed with the natural-language commands tested before "!gif" and
\* "!img"
route_allowed_natural_first(message) ==
    LET lower_content == lower(message.content)
    IN  IF /\ is_message_directed_at_bot(message)
           /\ route_directed(message).handler # "handle_bot_message"
        THEN route_directed(message)
        ELSE IF startswith(lower_content, TokGif)
        THEN Call("handle_gif_search", FALSE, <<>>)
        ELSE IF startswith(lower_content, TokImg)
        THEN Call("handle_image_generation", FALSE, <<>>)
        ELSE IF is_message_directed_at_bot(message)
        THEN route_directed(message)
        ELSE Call("return", FALSE, <<>>)

\* on_message after the gate of the allowed channels: "!gif", "!img", then the
\* messages directed at the bot
route_allowed(message) ==
    LET lower_content == lower(message.content)
    IN  IF startswith(lower_content, TokGif)
        THEN Call("handle_gif_search", FALSE, <<>>)
        ELSE IF startswith(lower_content, TokImg)
        THEN Call("handle_image_generation", FALSE, <<>>)
        ELSE IF is_message_directed_at_bot(message)
        THEN route_directed(message)
        ELSE Call("return", FALSE, <<>>)

\* route with the gate of the allowed channels before every command
route_gate_first(message, allowed) ==
    LET lower_content == lower(message.content)
    IN  IF message.bot THEN Call("return", FALSE, <<>>)
        ELSE IF message.guild /\ message.channel \notin allowed
        THEN Call("return", FALSE, <<>>)
        ELSE IF startswith(lower_content, TokSetChannel)
        THEN Call("handle_set_channel", FALSE, <<>>)
        ELSE IF startswith(lower_content, TokSetLanguage)
        THEN Call("handle_set_language", FALSE, <<>>)
        ELSE route_allowed(message)

\* route with the gate of the allowed channels after "!gif" and "!img"
route_gate_after_tokens(message, allowed) ==
    LET lower_content == lower(message.content)
    IN  IF message.bot THEN Call("return", FALSE, <<>>)
        ELSE IF startswith(lower_content, TokSetChannel)
        THEN Call("handle_set_channel", FALSE, <<>>)
        ELSE IF startswith(lower_content, TokSetLanguage)
        THEN Call("handle_set_language", FALSE, <<>>)
        ELSE IF startswith(lower_content, TokGif)
        THEN Call("handle_gif_search", FALSE, <<>>)
        ELSE IF startswith(lower_content, TokImg)
        THEN Call("handle_image_generation", FALSE, <<>>)
        ELSE IF message.guild /\ message.channel \notin allowed
        THEN Call("return", FALSE, <<>>)
        ELSE route_allowed(message)

\* on_message: the handler it calls for a message, given the ids of the allowed
\* channels; "return" and "hint" are its own two ends (a bare return, and the
\* reply of its "as a gif" branch to an empty query)
route(message, allowed) ==
    LET lower_content == lower(message.content)
    IN  IF message.bot THEN Call("return", FALSE, <<>>)
        ELSE IF startswith(lower_content, TokSetChannel)
        THEN Call("handle_set_channel", FALSE, <<>>)
        ELSE IF startswith(lower_content, TokSetLanguage)
        THEN Call("handle_set_language", FALSE, <<>>)
        ELSE IF message.guild /\ message.channel \notin allowed
        THEN Call("return", FALSE, <<>>)
        ELSE route_allowed(message)

ChannelIds == {src.channel : src \in Sources}

\* route, worked out once for every message and every set of allowed channels
routes ==
    Tabled([message \in AllMessages |->
                Tabled([allowed \in SUBSET ChannelIds |-> route(message, allowed)])])

\* the two handlers' re.search, worked out once for every text
set_opinion_matches == Tabled([text \in AllTexts |-> set_opinion_match(text)])

get_opinion_matches == Tabled([text \in AllTexts |-> get_opinion_match(text)])

\* set_language_argument without the strip()
set_language_argument_untrimmed(message) == Drop(message.content, Len(TokSetLanguage))

\* language of handle_set_language
set_language_argument(message) == strip(Drop(message.content, Len(TokSetLanguage)))

\* prompt of handle_image_generation
image_prompt(message, call) ==
    IF call.override THEN call.arg ELSE strip(Drop(message.content, Len(TokImg)))

\* query of handle_gif_search
gif_query(message, call) ==
    IF call.override THEN call.arg ELSE strip(Drop(message.content, Len(TokGif)))

\* channel_name of handle_set_channel: a DMChannel has no attribute "name"
channel_name(message) == IF message.dm THEN "DM" ELSE message.name

\* --------------------------------------------------- replies and calls

Reply(kind, about, text) == [kind |-> kind, about |-> about, text |-> text]

\* One call of an executor: openai.ChatCompletion.create ("text"),
\* openai.Image.create ("image"), requests.get of Giphy's search or random
\* endpoint ("gif_search", "gif_random"); what went in, and what came back.
ExecCall(exec, prompt, history, name, lang, outcome) ==
    [exec |-> exec, prompt |-> prompt, history |-> history, name |-> name,
     lang |-> lang, result |-> outcome.result, out |-> outcome.out]

\* the call raises, or returns the text out
TextOutcomes ==
    {[result |-> "fail", out |-> <<>>]} \cup {[result |-> "ok", out |-> g] : g \in GenTexts}

ImageOutcomes == {[result |-> "fail", out |-> <<>>], [result |-> "ok", out |-> Url]}

\* "empty": the search has no results; "fail": the request or the shape of its
\* answer raises
GifSearchOutcomes ==
    {[result |-> "fail", out |-> <<>>], [result |-> "empty", out |-> <<>>],
     [result |-> "ok", out |-> Url]}

\* "unusable": the answer holds no original image
GifRandomOutcomes ==
    {[result |-> "fail", out |-> <<>>], [result |-> "unusable", out |-> <<>>],
     [result |-> "ok", out |-> Url]}

\* the value f" Respond in {language}." and f"this user is called {..}. " are
\* built from: empty when the row is missing or empty
Directive(o) == IF Truthy(o) THEN o.v ELSE <<>>

\* ---------------------------------------------------------------- tasks

\* A task: its message; the handler on_message called, with the argument it
\* passed; where the task is suspended; the replies it sent and the executor
\* calls it made, in order; the ids of the conversation_history rows it
\* inserted; the number of rows the table held when it read its history (0:
\* not read); whether the channel was allowed when the message arrived.
NewTask(message, call, pc, arg, replies, calls) ==
    [msg |-> message, handler |-> call.handler, override |-> call.override,
     arg |-> arg, pc |-> pc, replies |-> replies, calls |-> calls,
     rows |-> <<>>, read_at |-> 0,
     listed |-> message.channel \in get_allowed_channels]

Spawn(message, call, pc, arg, replies, calls) ==
    tasks' = Append(tasks, NewTask(message, call, pc, arg, replies, calls))

TaskIds == 1..Len(tasks)

\* -------------------------------------------- on_message, to its first await

\* on_message returns without calling a handler: the author is a bot, the
\* guild channel is not allowed, or the message is not directed at the bot
on_message_return(message, call) ==
    /\ Spawn(message, call, "done", <<>>, <<>>, <<>>)
    /\ UNCHANGED stores

\* the reply of the "with a gif" / "as a gif" branch to an empty query
on_message_hint(message, call) ==
    /\ Spawn(message, call, "reply", <<>>, <<Reply("hint", <<>>, <<>>)>>, <<>>)
    /\ UNCHANGED stores

handle_set_channel(message, call) ==
    /\ allowed_channels' =
          add_allowed_channel(allowed_channels, message.channel, channel_name(message))
    /\ Spawn(message, call, "reply", <<>>, <<Reply("channel_set", <<>>, <<>>)>>, <<>>)
    /\ UNCHANGED <<user_memory, lum_preferences, conversation_history>>

\* handle_set_language with the language kept as a fact of the user
handle_set_language_per_user(message, call) ==
    LET language == set_language_argument(message)
    IN  IF language = <<>>
        THEN /\ Spawn(message, call, "reply", <<>>, <<Reply("hint", <<>>, <<>>)>>, <<>>)
             /\ UNCHANGED stores
        ELSE /\ user_memory' = set_user_memory(user_memory, message.author, KeyLanguage, language)
             /\ Spawn(message, call, "reply", language,
                      <<Reply("language_set", <<>>, language)>>, <<>>)
             /\ UNCHANGED <<lum_preferences, conversation_history, allowed_channels>>

handle_set_language(message, call) ==
    LET language == set_language_argument(message)
    IN  IF language = <<>>
        THEN /\ Spawn(message, call, "reply", <<>>, <<Reply("hint", <<>>, <<>>)>>, <<>>)
             /\ UNCHANGED stores
        ELSE /\ lum_preferences' = set_lum_preference(lum_preferences, KeyLanguage, language)
             /\ Spawn(message, call, "reply", language,
                      <<Reply("language_set", <<>>, language)>>, <<>>)
             /\ UNCHANGED <<user_memory, conversation_history, allowed_channels>>

handle_set_opinion(message, call) ==
    LET match == set_opinion_matches[message.content]
        subject == strip(match.g1)
        opinion == strip(match.g2)
    IN  IF ~match.ok
        THEN /\ Spawn(message, call, "reply", <<>>, <<Reply("hint", <<>>, <<>>)>>, <<>>)
             /\ UNCHANGED stores
        ELSE /\ lum_preferences' = set_lum_preference(lum_preferences, subject, opinion)
             /\ Spawn(message, call, "reply", subject,
                      <<Reply("opinion_set", subject, opinion)>>, <<>>)
             /\ UNCHANGED <<user_memory, conversation_history, allowed_channels>>

handle_get_opinion(message, call) ==
    LET match == get_opinion_matches[message.content]
        subject == strip(match.g1)
        opinion == get_lum_preference(subject)
        language == get_lum_preference(KeyLanguage)
    IN  IF ~match.ok
        THEN /\ Spawn(message, call, "reply", <<>>, <<Reply("hint", <<>>, <<>>)>>, <<>>)
             /\ UNCHANGED stores
        ELSE IF Truthy(opinion)
        THEN /\ Spawn(message, call, "reply", subject,
                      <<Reply("opinion", subject, opinion.v)>>, <<>>)
             /\ UNCHANGED stores
        ELSE \E outcome \in TextOutcomes :
                LET made == ExecCall("text", subject, <<>>, <<>>, Directive(language), outcome)
                    generated_opinion == strip(outcome.out)
                IN  IF outcome.result = "ok"
                    THEN /\ lum_preferences' =
                               set_lum_preference(lum_preferences, subject, generated_opinion)
                         /\ Spawn(message, call, "reply", subject,
                                  <<Reply("opinion", subject, generated_opinion)>>, <<made>>)
                         /\ UNCHANGED <<user_memory, conversation_history, allowed_channels>>
                    ELSE /\ Spawn(message, call, "reply", subject,
                                  <<Reply("sorry", <<>>, <<>>)>>, <<made>>)
                         /\ UNCHANGED stores

\* to "await message.channel.typing()", or to the reply to an empty prompt
handle_image_generation(message, call) ==
    LET prompt == image_prompt(message, call)
    IN  /\ IF prompt = <<>>
           THEN Spawn(message, call, "reply", <<>>, <<Reply("hint", <<>>, <<>>)>>, <<>>)
           ELSE Spawn(message, call, "typing_image", prompt, <<>>, <<>>)
        /\ UNCHANGED stores

\* to "await message.channel.typing()", or to the reply to an empty query
handle_gif_search(message, call) ==
    LET query == gif_query(message, call)
    IN  /\ IF query = <<>>
           THEN Spawn(message, call, "reply", <<>>, <<Reply("hint", <<>>, <<>>)>>, <<>>)
           ELSE Spawn(message, call, "typing_gif", query, <<>>, <<>>)
        /\ UNCHANGED stores

\* to "await message.channel.typing()"
handle_random_gif(message, call) ==
    /\ Spawn(message, call, "typing_random", <<>>, <<>>, <<>>)
    /\ UNCHANGED stores

\* to "await message.channel.typing()"
handle_bot_message(message, call) ==
    /\ Spawn(message, call, "typing_bot", <<>>, <<>>, <<>>)
    /\ UNCHANGED stores

\* A message arrives: its task runs on_message, and the handler on_message
\* calls, up to the first await that suspends it.
on_message(message) ==
    /\ Len(tasks) < MaxMessages
    /\ UNCHANGED <<GIPHY_API_KEY, probe, verdict>>
    /\ LET call == routes[message][get_allowed_channels]
       IN  \/ call.handler = "return" /\ on_message_return(message, call)
           \/ call.handler = "hint" /\ on_message_hint(message, call)
           \/ call.handler = "handle_set_channel" /\ handle_set_channel(message, call)
           \/ call.handler = "handle_set_language" /\ handle_set_language(message, call)
           \/ call.handler = "handle_set_opinion" /\ handle_set_opinion(message, call)
           \/ call.handler = "handle_get_opinion" /\ handle_get_opinion(message, call)
           \/ call.handler = "handle_image_generation"
              /\ handle_image_generation(message, call)
           \/ call.handler = "handle_gif_search" /\ handle_gif_search(message, call)
           \/ call.handler = "handle_random_gif" /\ handle_random_gif(message, call)
           \/ call.handler = "handle_bot_message" /\ handle_bot_message(message, call)

\* ------------------------------------------- the handlers, after an await

\* bot_message_resumes without the insert of the user's turn
bot_message_resumes_forgets_user_turn(i) ==
    LET message == tasks[i].msg
        user_id == message.author
        content == strip(lower(message.content))
        saved == conversation_history
        history == get_conversation_history(saved, user_id, HistoryLimit)
        memory == get_user_memory(user_id, KeyUserName)
        language == get_lum_preference(KeyLanguage)
    IN  /\ tasks[i].pc = "typing_bot"
        /\ \E outcome \in TextOutcomes :
              LET made == ExecCall("text", content, history, Directive(memory),
                                   Directive(language), outcome)
                  bot_reply == lower(outcome.out)
              IN  IF outcome.result = "ok"
                  THEN /\ conversation_history' =
                             add_conversation_message(saved, user_id, "assistant", bot_reply)
                       /\ tasks' = [tasks EXCEPT ![i] =
                             [@ EXCEPT !.pc = "reply",
                                       !.replies = Append(@, Reply("chat", <<>>, bot_reply)),
                                       !.calls = Append(@, made),
                                       !.rows = <<Len(saved) + 1>>,
                                       !.read_at = Len(saved)]]
                  ELSE /\ conversation_history' = saved
                       /\ tasks' = [tasks EXCEPT ![i] =
                             [@ EXCEPT !.pc = "done",
                                       !.calls = Append(@, made),
                                       !.read_at = Len(saved)]]
        /\ UNCHANGED <<user_memory, lum_preferences, allowed_channels,
                       GIPHY_API_KEY, probe, verdict>>

\* handle_bot_message after typing(): the user's turn is inserted, the history
\* read, the completion requested and, if it comes, the reply inserted and sent
bot_message_resumes(i) ==
    LET message == tasks[i].msg
        user_id == message.author
        content == strip(lower(message.content))
        saved == add_conversation_message(conversation_history, user_id, "user", content)
        history == get_conversation_history(saved, user_id, HistoryLimit)
        memory == get_user_memory(user_id, KeyUserName)
        language == get_lum_preference(KeyLanguage)
    IN  /\ tasks[i].pc = "typing_bot"
        /\ \E outcome \in TextOutcomes :
              LET made == ExecCall("text", content, history, Directive(memory),
                                   Directive(language), outcome)
                  bot_reply == lower(outcome.out)
              IN  IF outcome.result = "ok"
                  THEN /\ conversation_history' =
                             add_conversation_message(saved, user_id, "assistant", bot_reply)
                       /\ tasks' = [tasks EXCEPT ![i] =
                             [@ EXCEPT !.pc = "reply",
                                       !.replies = Append(@, Reply("chat", <<>>, bot_reply)),
                                       !.calls = Append(@, made),
                                       !.rows = <<Len(saved), Len(saved) + 1>>,
                                       !.read_at = Len(saved)]]
                  ELSE /\ conversation_history' = saved
                       /\ tasks' = [tasks EXCEPT ![i] =
                             [@ EXCEPT !.pc = "done",
                                       !.calls = Append(@, made),
                                       !.rows = <<Len(saved)>>,
                                       !.read_at = Len(saved)]]
        /\ UNCHANGED <<user_memory, lum_preferences, allowed_channels,
                       GIPHY_API_KEY, probe, verdict>>

\* handle_image_generation after typing()
image_generation_resumes(i) ==
    /\ tasks[i].pc = "typing_image"
    /\ \E outcome \in ImageOutcomes :
          LET made == ExecCall("image", tasks[i].arg, <<>>, <<>>, <<>>, outcome)
          IN  tasks' = [tasks EXCEPT ![i] =
                 [@ EXCEPT !.pc = "reply",
                           !.calls = Append(@, made),
                           !.replies = IF outcome.result = "ok"
                                       THEN Append(@, Reply("url", <<>>, outcome.out))
                                       ELSE Append(@, Reply("sorry", <<>>, <<>>))]]
    /\ UNCHANGED <<stores, GIPHY_API_KEY, probe, verdict>>

\* gif_search_resumes with a reply of its own before it falls back to
\* handle_random_gif
gif_search_resumes_tells_fallback(i) ==
    /\ tasks[i].pc = "typing_gif"
    /\ IF ~GIPHY_API_KEY
       THEN tasks' = [tasks EXCEPT ![i] =
               [@ EXCEPT !.pc = "reply", !.replies = Append(@, Reply("no_key", <<>>, <<>>))]]
       ELSE \E outcome \in GifSearchOutcomes :
               LET made == ExecCall("gif_search", tasks[i].arg, <<>>, <<>>, <<>>, outcome)
               IN  tasks' = [tasks EXCEPT ![i] =
                      [@ EXCEPT !.pc = IF outcome.result = "empty"
                                       THEN "typing_random" ELSE "reply",
                                !.calls = Append(@, made),
                                !.replies = IF outcome.result = "ok"
                                            THEN Append(@, Reply("url", <<>>, outcome.out))
                                            ELSE IF outcome.result = "fail"
                                            THEN Append(@, Reply("sorry", <<>>, <<>>))
                                            ELSE Append(@, Reply("not_found", <<>>, <<>>))]]
    /\ UNCHANGED <<stores, GIPHY_API_KEY, probe, verdict>>

\* handle_gif_search after typing(); with no result it calls handle_random_gif,
\* which awaits typing() in its turn
gif_search_resumes(i) ==
    /\ tasks[i].pc = "typing_gif"
    /\ IF ~GIPHY_API_KEY
       THEN tasks' = [tasks EXCEPT ![i] =
               [@ EXCEPT !.pc = "reply", !.replies = Append(@, Reply("no_key", <<>>, <<>>))]]
       ELSE \E outcome \in GifSearchOutcomes :
               LET made == ExecCall("gif_search", tasks[i].arg, <<>>, <<>>, <<>>, outcome)
               IN  tasks' = [tasks EXCEPT ![i] =
                      [@ EXCEPT !.pc = IF outcome.result = "empty"
                                       THEN "typing_random" ELSE "reply",
                                !.calls = Append(@, made),
                                !.replies = IF outcome.result = "ok"
                                            THEN Append(@, Reply("url", <<>>, outcome.out))
                                            ELSE IF outcome.result = "fail"
                                            THEN Append(@, Reply("sorry", <<>>, <<>>))
                                            ELSE @]]
    /\ UNCHANGED <<stores, GIPHY_API_KEY, probe, verdict>>

\* handle_random_gif after typing()
random_gif_resumes(i) ==
    /\ tasks[i].pc = "typing_random"
    /\ IF ~GIPHY_API_KEY
       THEN tasks' = [tasks EXCEPT ![i] =
               [@ EXCEPT !.pc = "reply", !.replies = Append(@, Reply("no_key", <<>>, <<>>))]]
       ELSE \E outcome \in GifRandomOutcomes :
               LET made == ExecCall("gif_random", <<>>, <<>>, <<>>, <<>>, outcome)
               IN  tasks' = [tasks EXCEPT ![i] =
                      [@ EXCEPT !.pc = "reply",
                                !.calls = Append(@, made),
                                !.replies = IF outcome.result = "ok"
                                            THEN Append(@, Reply("url", <<>>, outcome.out))
                                            ELSE IF outcome.result = "unusable"
                                            THEN Append(@, Reply("not_found", <<>>, <<>>))
                                            ELSE Append(@, Reply("sorry", <<>>, <<>>))]]
    /\ UNCHANGED <<stores, GIPHY_API_KEY, probe, verdict>>

\* "await message.reply(...)" returns; every handler ends after its reply
reply_returns(i) ==
    /\ tasks[i].pc = "reply"
    /\ tasks' = [tasks EXCEPT ![i] = [@ EXCEPT !.pc = "done"]]
    /\ UNCHANGED <<stores, GIPHY_API_KEY, probe, verdict>>

\* ------------------------------------------------------ specifications

EmptyMap == [k \in {} |-> <<>>]

\* The tables outlive the process (CREATE TABLE IF NOT EXISTS): the bot starts
\* on an empty database, or on the one an earlier run left.  The channel an
\* earlier run registered has been renamed since.
EarlierHistory ==
    <<[user_id |-> "u1", role |-> "user", content |-> <<"y", "o">>],
      [user_id |-> "u1", role |-> "assistant", content |-> <<"y", "o", ".">>],
      [user_id |-> "u2", role |-> "user", content |-> <<"s", "u", "p">>]>>

EarlierRun ==
    [memory |-> [k \in {<<"u1", KeyUserName>>} |-> <<"A", "l">>],
     preferences |-> [k \in {KeyLanguage} |-> <<"f", "r">>],
     history |-> EarlierHistory]

FirstRun == [memory |-> EmptyMap, preferences |-> EmptyMap, history |-> <<>>]

NoProbe == Message(CHOOSE src \in Sources : src.bot, <<>>)

Init ==
    /\ \E db \in {FirstRun, EarlierRun} :
          /\ user_memory = db.memory
          /\ lum_preferences = db.preferences
          /\ conversation_history = db.history
    /\ allowed_channels \in {EmptyMap, [c \in {"g1"} |-> "lounge"]}
    /\ GIPHY_API_KEY \in BOOLEAN
    /\ tasks = <<>>
    /\ probe = NoProbe
    /\ verdict = "none"

Next ==
    \/ \E message \in Messages : on_message(message)
    \/ \E i \in TaskIds : bot_message_resumes(i)
    \/ \E i \in TaskIds : image_generation_resumes(i)
    \/ \E i \in TaskIds : gif_search_resumes(i)
    \/ \E i \in TaskIds : random_gif_resumes(i)
    \/ \E i \in TaskIds : reply_returns(i)

Spec == Init /\ [][Next]_vars

\* --------------------------------------- is_message_directed_at_bot alone

\* Further texts for is_message_directed_at_bot: greetings of the bot, of
\* others, of nobody, and texts that only look like greetings.

\* ''
ProbeEmpty == <<>>

\* 'Hi'
ProbeHi == <<"H", "i">>

\* 'hi lum'
ProbeHiLum == <<"h", "i", " ", "l", "u", "m">>

\* 'hey lum, who?'
ProbeHiLumComma == <<"h", "e", "y", " ", "l", "u", "m", ",", " ", "w", "h", "o", "?">>

\* 'hi lumber, who?'
ProbeHiLumber == <<"h", "i", " ", "l", "u", "m", "b", "e", "r", ",", " ", "w", "h", "o", "?">>

\* 'yo  bob'
ProbeHiTwoSpaces == <<"y", "o", " ", " ", "b", "o", "b">>

\* 'Hello Ann, help me'
ProbeHelloHelp == <<"H", "e", "l", "l", "o", " ", "A", "n", "n", ",", " ", "h", "e", "l", "p", " ", "m", "e">>

\* "sup\tbob, what's up?"
ProbeSupTab == <<"s", "u", "p", "\t", "b", "o", "b", ",", " ", "w", "h", "a", "t", "'", "s", " ", "u", "p", "?">>

\* 'hi, john?'
ProbeHiComma == <<"h", "i", ",", " ", "j", "o", "h", "n", "?">>

\* 'help me, bob'
ProbeHelp == <<"h", "e", "l", "p", " ", "m", "e", ",", " ", "b", "o", "b">>

\* 'is it late?'
ProbeQuestion == <<"i", "s", " ", "i", "t", " ", "l", "a", "t", "e", "?">>

\* 'history is long'
ProbeHistory == <<"h", "i", "s", "t", "o", "r", "y", " ", "i", "s", " ", "l", "o", "n", "g">>

ProbeTexts ==
    Texts \cup
    {ProbeEmpty,
     ProbeHi,
     ProbeHiLum,
     ProbeHiLumComma,
     ProbeHiLumber,
     ProbeHiTwoSpaces,
     ProbeHelloHelp,
     ProbeSupTab,
     ProbeHiComma,
     ProbeHelp,
     ProbeQuestion,
     ProbeHistory}

\* a one-to-one channel, a guild channel, a group channel; the bot mentioned or not
ProbeMessages ==
    {[author |-> "u1", bot |-> FALSE, channel |-> "c1", guild |-> k[2], dm |-> k[1],
      mention |-> mention, name |-> "general", content |-> text] :
        k \in {<<TRUE, FALSE>>, <<FALSE, TRUE>>, <<FALSE, FALSE>>},
        mention \in BOOLEAN, text \in ProbeTexts}

\* is_message_directed_at_bot is applied to the message
directed_at_bot_returns ==
    /\ verdict = "none"
    /\ verdict' = IF is_message_directed_at_bot(probe) THEN "engage" ELSE "ignore"
    /\ UNCHANGED <<stores, GIPHY_API_KEY, tasks, probe>>

InitEngage ==
    /\ user_memory = EmptyMap
    /\ lum_preferences = EmptyMap
    /\ conversation_history = <<>>
    /\ allowed_channels = EmptyMap
    /\ GIPHY_API_KEY = FALSE
    /\ tasks = <<>>
    /\ probe \in ProbeMessages
    /\ verdict = "none"

NextEngage == directed_at_bot_returns

SpecEngage == InitEngage /\ [][NextEngage]_vars

\* ------------------------------------------ the opinions and the language

\* handle_set_opinion, handle_get_opinion and handle_set_language on the
\* further texts
OpinionMessages == {Message(src, text) : src \in Sources, text \in OpinionTexts}

NextOpinion ==
    \/ \E message \in OpinionMessages : on_message(message)
    \/ \E i \in TaskIds : reply_returns(i)

SpecOpinion == Init /\ [][NextOpinion]_vars

\* ------------------------------------------ conversation_history alone

\* how many rows are inserted in one run
MaxTurns == 4

Users == {"u1", "u2"}

Roles == {"user", "assistant"}

Contents == {<<"a">>, <<"b">>}

\* the limits get_conversation_history is called with
Limits == 0..(MaxTurns + 1)

\* add_conversation_message is called
conversation_message_added(user_id, role, content) ==
    /\ Len(conversation_history) < MaxTurns
    /\ conversation_history' =
          add_conversation_message(conversation_history, user_id, role, content)
    /\ UNCHANGED <<user_memory, lum_preferences, allowed_channels, GIPHY_API_KEY,
                   tasks, probe, verdict>>

\* get_conversation_history is called
conversation_history_read(user_id, limit) ==
    /\ probe' = [user_id |-> user_id, limit |-> limit]
    /\ verdict' = get_conversation_history(conversation_history, user_id, limit)
    /\ UNCHANGED <<stores, GIPHY_API_KEY, tasks>>

InitLog ==
    /\ user_memory = EmptyMap
    /\ lum_preferences = EmptyMap
    /\ conversation_history = <<>>
    /\ allowed_channels = EmptyMap
    /\ GIPHY_API_KEY = FALSE
    /\ tasks = <<>>
    /\ probe = [user_id |-> "u1", limit |-> 0]
    /\ verdict = <<>>

NextLog ==
    \/ \E user_id \in Users, role \in Roles, content \in Contents :
          conversation_message_added(user_id, role, content)
    \/ \E user_id \in Users, limit \in Limits :
          conversation_history_read(user_id, limit)

SpecLog == InitLog /\ [][NextLog]_vars

\* ------------------------------------------------ on_message's tests alone

\* on_message, to the handler it calls, on the further texts
DispatchMessages == {Message(src, text) : src \in Sources, text \in DispatchTexts}

NextDispatch == \E message \in DispatchMessages : on_message(message)

SpecDispatch == Init /\ [][NextDispatch]_vars

\* -------------------------------------------------- handle_bot_message alone

\* The table after many conversations: twelve turns of u1, more than the ten
\* handle_bot_message reads, with turns of u2 between them; a completion for u2
\* failed once.
LongHistory ==
    <<[user_id |-> "u1", role |-> "user", content |-> <<"q", "1">>],
      [user_id |-> "u1", role |-> "assistant", content |-> <<"a", "1">>],
      [user_id |-> "u1", role |-> "user", content |-> <<"q", "2">>],
      [user_id |-> "u1", role |-> "assistant", content |-> <<"a", "2">>],
      [user_id |-> "u2", role |-> "user", content |-> <<"x", "2">>],
      [user_id |-> "u2", role |-> "assistant", content |-> <<"y", "2">>],
      [user_id |-> "u1", role |-> "user", content |-> <<"q", "3">>],
      [user_id |-> "u1", role |-> "assistant", content |-> <<"a", "3">>],
      [user_id |-> "u2", role |-> "user", content |-> <<"x", "3">>],
      [user_id |-> "u1", role |-> "user", content |-> <<"q", "4">>],
      [user_id |-> "u1", role |-> "assistant", content |-> <<"a", "4">>],
      [user_id |-> "u1", role |-> "user", content |-> <<"q", "5">>],
      [user_id |-> "u1", role |-> "assistant", content |-> <<"a", "5">>],
      [user_id |-> "u2", role |-> "user", content |-> <<"x", "5">>],
      [user_id |-> "u2", role |-> "assistant", content |-> <<"y", "5">>],
      [user_id |-> "u1", role |-> "user", content |-> <<"q", "6">>],
      [user_id |-> "u1", role |-> "assistant", content |-> <<"a", "6">>]>>

\* handle_bot_message on the conversation texts, in registered channels
ConverseMessages == {Message(src, text) : src \in Sources, text \in ConverseTexts}

InitConverse ==
    /\ user_memory = EarlierRun.memory
    /\ lum_preferences = EmptyMap
    /\ conversation_history \in {<<>>, EarlierHistory, LongHistory}
    /\ allowed_channels = [c \in {"g1", "g2"} |-> "general"]
    /\ GIPHY_API_KEY = FALSE
    /\ tasks = <<>>
    /\ probe = NoProbe
    /\ verdict = "none"

NextConverse ==
    \/ \E message \in ConverseMessages : on_message(message)
    \/ \E i \in TaskIds : bot_message_resumes(i)
    \/ \E i \in TaskIds : reply_returns(i)

SpecConverse == InitConverse /\ [][NextConverse]_vars

\* =============================================================== claims

\* the task a step of on_message adds
Arrives == Len(tasks') = Len(tasks) + 1

Arrived == tasks'[Len(tasks')]

\* ---- C8, C9: is_message_directed_at_bot (checked under SpecEngage)

\* the first run of word characters of a text
LeadingWord(r) ==
    SubSeq(r, 1, Max({k \in 0..Len(r) : \A i \in 1..k : IsWordChar(r[i])}))

\* "hi <other-name>, ...": in the lowered, trimmed text a greeting word stands
\* before the first whitespace, and the word that follows the whitespace is not
\* the bot's name
IsGreetingToOther(text) ==
    LET c == strip(lower(text))
        ws == {i \in 1..Len(c) : c[i] \in WS}
    IN  /\ ws # {}
        /\ SubSeq(c, 1, Min(ws) - 1) \in Greetings
        /\ LeadingWord(strip(Drop(c, Min(ws)))) # TokLum

\* C8 as the spec states it: for every message whose text has the form
\* "hi <other-name>, ...", is_message_directed_at_bot returns False.
C8_GreetingToOtherNeverEngages ==
    (verdict # "none" /\ IsGreetingToOther(probe.content)) => verdict = "ignore"

\* C8, amended: a message with a text of the form "hi <other-name>, ..." that
\* is not a one-to-one message and does not mention the bot is not directed at
\* the bot, whatever trigger word or question mark the text holds.
C8_GreetingToOtherInChannelIgnored ==
    (/\ verdict # "none"
     /\ IsGreetingToOther(probe.content)
     /\ ~probe.dm
     /\ ~probe.mention) => verdict = "ignore"

\* a greeting of somebody else that ends in "?", in a guild channel, is ignored
C8_Witness ==
    /\ verdict = "ignore"
    /\ IsGreetingToOther(probe.content)
    /\ endswith(strip(lower(probe.content)), <<"?">>)
    /\ probe.guild
    /\ ~probe.mention

\* C9: for every one-to-one message is_message_directed_at_bot returns True,
\* whatever the text: the empty text and a greeting of somebody else too.
C9_DirectMessageAlwaysEngages ==
    (verdict # "none" /\ probe.dm) => verdict = "engage"

\* a one-to-one message that greets somebody else is directed at the bot
C9_Witness ==
    /\ verdict = "engage"
    /\ probe.dm
    /\ ~probe.mention
    /\ IsGreetingToOther(probe.content)

\* ---- what the claims say of a text, worked out once for every text

\* the text begins with the token, whatever the case of its letters
BeginsWith(token) == Tabled([text \in AllTexts |-> startswith(lower(text), token)])

BeginsSetChannel == BeginsWith(TokSetChannel)

BeginsSetLanguage == BeginsWith(TokSetLanguage)

BeginsLumGenerate == BeginsWith(TokLum \o <<" ">> \o TokGenerate)

\* what follows the first n characters of the text, trimmed
TrimmedAfter(n) == Tabled([text \in AllTexts |-> strip(Drop(text, n))])

LanguageNamed == TrimmedAfter(Len(TokSetLanguage))

PromptNamed == TrimmedAfter(Len(TokLum) + 1 + Len(TokGenerate))

\* the subject a GetOpinion message names; empty when it names none
SubjectAsked ==
    Tabled([text \in AllTexts |->
        IF get_opinion_matches[text].ok THEN strip(get_opinion_matches[text].g1) ELSE <<>>])

\* the message of a user arrived in a guild channel that was not registered
Gated(t) == ~t.msg.bot /\ t.msg.guild /\ ~t.listed

\* the message of a user passed the gate of the channels
Admitted(t) == ~t.msg.bot /\ (t.listed \/ ~t.msg.guild)

\* ---- C1: the gate of the allowed channels

\* C1 as the spec states it: a message in a guild channel that is not in the
\* registry when it is handled gets no reply and writes no table, unless its
\* text begins with "!setchannel".
C1_OnlySetChannelBypasses ==
    [][/\ Arrives =>
            ((/\ Arrived.msg.guild
              /\ Arrived.msg.channel \notin DOMAIN allowed_channels
              /\ ~BeginsSetChannel[Arrived.msg.content])
             => (Arrived.replies = <<>> /\ Arrived.pc = "done" /\ stores' = stores))
       /\ \A i \in TaskIds : tasks[i].pc = "done" => tasks'[i] = tasks[i]]_vars

\* C1, amended: a message in a guild channel that is not in the registry when
\* it is handled gets no reply and writes no table, unless its text begins with
\* "!setchannel" or with "lum set language to"; a user's message that begins
\* with either is answered there all the same.
C1_GateButForTwoCommands ==
    [][/\ Arrives =>
            /\ (/\ Arrived.msg.guild
                /\ Arrived.msg.channel \notin DOMAIN allowed_channels
                /\ ~BeginsSetChannel[Arrived.msg.content]
                /\ ~BeginsSetLanguage[Arrived.msg.content])
               => (Arrived.replies = <<>> /\ Arrived.pc = "done" /\ stores' = stores)
            /\ (/\ ~Arrived.msg.bot
                /\ Arrived.msg.guild
                /\ Arrived.msg.channel \notin DOMAIN allowed_channels
                /\ (\/ BeginsSetChannel[Arrived.msg.content]
                    \/ BeginsSetLanguage[Arrived.msg.content]))
               => Len(Arrived.replies) = 1
       /\ \A i \in TaskIds : tasks[i].pc = "done" => tasks'[i] = tasks[i]]_vars

\* a message that is answered in a registered channel got no answer in one
\* that is not
C1_Witness ==
    \E i \in TaskIds :
        /\ Gated(tasks[i])
        /\ routes[tasks[i].msg][ChannelIds].handler # "return"
        /\ tasks[i].handler = "return"
        /\ tasks[i].pc = "done"
        /\ tasks[i].replies = <<>>

\* ---- C2: "!setchannel"

\* C2: a user's message whose text begins with "!setchannel" is handled by
\* handle_set_channel, whatever the registry holds and whatever follows the
\* token, and from then on its channel is in the registry.
C2_SetChannelAlwaysRegisters ==
    \A i \in TaskIds :
        (~tasks[i].msg.bot /\ BeginsSetChannel[tasks[i].msg.content]) =>
            /\ tasks[i].handler = "handle_set_channel"
            /\ tasks[i].msg.channel \in DOMAIN allowed_channels

\* "!setchannel" was sent in a guild channel that was not registered before
C2_Witness ==
    \E i \in TaskIds :
        /\ Gated(tasks[i])
        /\ BeginsSetChannel[tasks[i].msg.content]
        /\ tasks[i].handler = "handle_set_channel"
        /\ tasks[i].pc = "done"
        /\ tasks[i].msg.channel \in DOMAIN allowed_channels

\* ---- C3: the memoized opinion

\* C3: a GetOpinion for a subject with no stored opinion calls the
\* text-generation executor once and stores what it generated under the
\* subject; a GetOpinion for a subject with a stored opinion replies with the
\* stored value, calls no executor and stores nothing.
C3_OpinionGeneratedOnce ==
    [][(/\ Arrives
        /\ Arrived.handler = "handle_get_opinion"
        /\ get_opinion_matches[Arrived.msg.content].ok) =>
            LET subject == SubjectAsked[Arrived.msg.content]
            IN  IF subject \in DOMAIN lum_preferences
                THEN /\ Arrived.calls = <<>>
                     /\ Arrived.replies = <<Reply("opinion", subject, lum_preferences[subject])>>
                     /\ lum_preferences' = lum_preferences
                ELSE /\ Len(Arrived.calls) = 1
                     /\ Arrived.calls[1].exec = "text"
                     /\ Arrived.calls[1].result = "ok" =>
                           /\ subject \in DOMAIN lum_preferences'
                           /\ lum_preferences'[subject] = strip(Arrived.calls[1].out)]_vars

\* ---- C4: all writes of a handled action, or none

\* C4: the step of handle_bot_message that calls the text-generation executor
\* appends the user's turn and the assistant's turn when the call succeeds, and
\* leaves conversation_history as it was when the call fails.
C4_ConverseWritesAllOrNothing ==
    [][\A i \in TaskIds :
          (tasks[i].pc = "typing_bot" /\ tasks'[i].pc # "typing_bot") =>
              IF tasks'[i].calls[1].result = "fail"
              THEN conversation_history' = conversation_history
              ELSE Len(conversation_history') = Len(conversation_history) + 2]_vars

\* ---- C5: a failed executor call

\* C5: a task one of whose executor calls failed has sent exactly one reply,
\* the apology, whatever its handler.
C5_FailureGetsOneApology ==
    \A i \in TaskIds :
        (\E k \in 1..Len(tasks[i].calls) : tasks[i].calls[k].result = "fail") =>
            /\ Len(tasks[i].replies) = 1
            /\ tasks[i].replies[1].kind = "sorry"

\* ---- C6: "lum generate <text>"

\* C6: a user's message that passed the gate and begins with "lum generate" is
\* handled by handle_image_generation with the trimmed rest of the text as the
\* prompt; when that rest is empty the task replies with a hint, calls no
\* executor and writes no table, and is not handled as conversation.
C6_LumGenerate ==
    \A i \in TaskIds :
        (Admitted(tasks[i]) /\ BeginsLumGenerate[tasks[i].msg.content]) =>
            IF PromptNamed[tasks[i].msg.content] # <<>>
            THEN /\ tasks[i].handler = "handle_image_generation"
                 /\ tasks[i].arg = PromptNamed[tasks[i].msg.content]
            ELSE /\ tasks[i].handler # "handle_bot_message"
                 /\ tasks[i].replies = <<Reply("hint", <<>>, <<>>)>>
                 /\ tasks[i].calls = <<>>
                 /\ tasks[i].rows = <<>>

\* ---- C7: the order of one user's turns

\* C7: of two conversation messages of one user, the one that arrived later
\* reads its history only after the earlier one's user turn is inserted.
C7_UserTurnBeforeNextContext ==
    \A i, j \in TaskIds :
        (/\ i < j
         /\ tasks[i].msg.author = tasks[j].msg.author
         /\ tasks[i].handler = "handle_bot_message"
         /\ tasks[j].handler = "handle_bot_message"
         /\ tasks[j].read_at # 0) =>
            /\ tasks[i].rows # <<>>
            /\ tasks[i].rows[1] <= tasks[j].read_at

\* ---- C10: "lum set language to"

\* C10: a user's message that begins with "lum set language to" and names a
\* language sets lum_preferences["language"] to the trimmed rest of the text
\* and writes nothing else; when the rest is empty the task replies with the
\* hint and no table changes.
C10_SetLanguage ==
    [][(/\ Arrives
        /\ ~Arrived.msg.bot
        /\ BeginsSetLanguage[Arrived.msg.content]) =>
            LET language == LanguageNamed[Arrived.msg.content]
            IN  IF language # <<>>
                THEN /\ lum_preferences' =
                           set_lum_preference(lum_preferences, KeyLanguage, language)
                     /\ UNCHANGED <<user_memory, conversation_history, allowed_channels>>
                     /\ Arrived.replies = <<Reply("language_set", <<>>, language)>>
                ELSE /\ stores' = stores
                     /\ Arrived.replies = <<Reply("hint", <<>>, <<>>)>>]_vars

\* one message set the language, a later one named none and changed nothing
C10_Witness ==
    \E i, j \in TaskIds :
        /\ i < j
        /\ tasks[i].replies = <<Reply("language_set", <<>>, LanguageNamed[tasks[i].msg.content])>>
        /\ BeginsSetLanguage[tasks[j].msg.content]
        /\ LanguageNamed[tasks[j].msg.content] = <<>>
        /\ tasks[j].replies = <<Reply("hint", <<>>, <<>>)>>
        /\ tasks[j].pc = "done"
        /\ KeyLanguage \in DOMAIN lum_preferences
        /\ lum_preferences[KeyLanguage] = LanguageNamed[tasks[i].msg.content]

\* ---- C11: "lum set your opinion on <rest>" (checked under SpecOpinion)

BeginsSetOpinion == BeginsWith(TokSetOpinion)

\* a connector word, "to" or "as", stands at position c of rest between two
\* whitespace characters
ConnectorAt(rest, c) ==
    /\ c >= 2
    /\ c + 2 <= Len(rest)
    /\ rest[c - 1] \in WS
    /\ rest[c + 2] \in WS
    /\ lower(SubSeq(rest, c, c + 1)) \in Connectors

\* the pair a set-opinion text names: what stands before the first connector
\* word that has text on both sides, and all that stands after it, both trimmed
PairNamed ==
    Tabled([text \in AllTexts |->
        LET rest == Drop(text, Len(TokSetOpinion))
            C == {c \in 1..Len(rest) :
                    /\ ConnectorAt(rest, c)
                    /\ strip(SubSeq(rest, 1, c - 1)) # <<>>
                    /\ strip(Drop(rest, c + 1)) # <<>>}
        IN  IF C = {}
            THEN [ok |-> FALSE, subject |-> <<>>, opinion |-> <<>>]
            ELSE [ok |-> TRUE,
                  subject |-> strip(SubSeq(rest, 1, Min(C) - 1)),
                  opinion |-> strip(Drop(rest, Min(C) + 1))]])

\* the message of a user is past the gate of the channels when it arrives
PassesGate(message) ==
    ~message.bot /\ (~message.guild \/ message.channel \in DOMAIN allowed_channels)

\* C11: a user's message that passed the gate and begins with "lum set your
\* opinion on" writes the pair its text names, and nothing else, to
\* lum_preferences and replies with it; when the text names no pair the task
\* replies with the hint and no table changes.
C11_SetOpinionPair ==
    [][(/\ Arrives
        /\ PassesGate(Arrived.msg)
        /\ BeginsSetOpinion[Arrived.msg.content]) =>
            LET named == PairNamed[Arrived.msg.content]
            IN  IF named.ok
                THEN /\ lum_preferences' =
                           set_lum_preference(lum_preferences, named.subject, named.opinion)
                     /\ UNCHANGED <<user_memory, conversation_history, allowed_channels>>
                     /\ Arrived.replies =
                           <<Reply("opinion_set", named.subject, named.opinion)>>
                ELSE /\ stores' = stores
                     /\ Arrived.replies = <<Reply("hint", <<>>, <<>>)>>]_vars

\* ---- C12: the round trip of conversation_history (checked under SpecLog)

\* the row of the j-th turn of user u in the log
NthTurnOf(log, u, j) ==
    log[CHOOSE i \in 1..Len(log) :
            /\ log[i].user_id = u
            /\ Cardinality({h \in 1..i : log[h].user_id = u}) = j]

\* the last min(k, n) of the n turns of user u, the oldest first, as the pairs
\* of role and content
LastTurnsOf(log, u, k) ==
    LET n == Cardinality({i \in 1..Len(log) : log[i].user_id = u})
        m == IF k < n THEN k ELSE n
    IN  [j \in 1..m |->
            [role |-> NthTurnOf(log, u, n - m + j).role,
             content |-> NthTurnOf(log, u, n - m + j).content]]

\* C12: get_conversation_history(user, k) returns the last min(k, n) of the n
\* turns inserted for the user, in the order of their insertion, and no turn of
\* another user, however the inserts of the users are interleaved.
C12_RecentTurnsRoundTrip ==
    [][conversation_history' = conversation_history =>
          verdict' = LastTurnsOf(conversation_history, probe'.user_id, probe'.limit)]_vars

\* three turns of u1 with a turn of u2 between them were inserted, and the last
\* two of u1 were read
C12_Witness ==
    /\ Len(conversation_history) = 4
    /\ conversation_history[1].user_id = "u1"
    /\ conversation_history[2].user_id = "u2"
    /\ conversation_history[3].user_id = "u1"
    /\ conversation_history[4].user_id = "u1"
    /\ conversation_history[3].content # conversation_history[4].content
    /\ probe = [user_id |-> "u1", limit |-> 2]
    /\ verdict = <<[role |-> conversation_history[3].role,
                    content |-> conversation_history[3].content],
                   [role |-> conversation_history[4].role,
                    content |-> conversation_history[4].content]>>

\* ---- C13: "!setchannel", again

\* C13: handle_set_channel leaves the registry as it was when the channel is
\* registered already, and otherwise adds the one entry of the channel; the
\* entry of every other channel stays as it was.
C13_SetChannelIdempotent ==
    [][(Arrives /\ Arrived.handler = "handle_set_channel") =>
          LET c == Arrived.msg.channel
          IN  /\ c \in DOMAIN allowed_channels'
              /\ c \in DOMAIN allowed_channels => allowed_channels' = allowed_channels
              /\ DOMAIN allowed_channels' = DOMAIN allowed_channels \cup {c}
              /\ \A d \in DOMAIN allowed_channels \ {c} :
                    allowed_channels'[d] = allowed_channels[d]]_vars

\* "!setchannel" was handled twice for one channel, next to a channel
\* registered before
C13_Witness ==
    \E i, j \in TaskIds :
        /\ i < j
        /\ tasks[i].handler = "handle_set_channel"
        /\ tasks[j].handler = "handle_set_channel"
        /\ tasks[i].msg.channel = tasks[j].msg.channel
        /\ tasks[j].pc = "done"
        /\ DOMAIN allowed_channels # {tasks[i].msg.channel}
        /\ tasks[i].msg.channel \in DOMAIN allowed_channels

\* ---- C14: one action and at most one reply for a message

\* what on_message does with a message
Handlers ==
    {"return", "hint", "handle_set_channel", "handle_set_language",
     "handle_set_opinion", "handle_get_opinion", "handle_image_generation",
     "handle_gif_search", "handle_random_gif", "handle_bot_message"}

\* the executors an action may call, in the order of the calls
CallsAllowed(handler) ==
    IF handler \in {"handle_get_opinion", "handle_bot_message"} THEN {<<>>, <<"text">>}
    ELSE IF handler = "handle_image_generation" THEN {<<>>, <<"image">>}
    ELSE IF handler = "handle_random_gif" THEN {<<>>, <<"gif_random">>}
    ELSE IF handler = "handle_gif_search"
    THEN {<<>>, <<"gif_search">>, <<"gif_search", "gif_random">>}
    ELSE {<<>>}

\* C14: every message has one action; the task of a message calls the executor
\* of its action only, at most once (a GIF search that found nothing calls the
\* random endpoint after it), only a conversation writes conversation_history,
\* and the task sends at most one reply, after a fallback to a random GIF too.
C14_OneActionOneReply ==
    \A i \in TaskIds :
        /\ tasks[i].handler \in Handlers
        /\ Len(tasks[i].replies) <= 1
        /\ [k \in 1..Len(tasks[i].calls) |-> tasks[i].calls[k].exec]
              \in CallsAllowed(tasks[i].handler)
        /\ (Len(tasks[i].calls) = 2 => tasks[i].calls[1].result = "empty")
        /\ (tasks[i].rows # <<>> => tasks[i].handler = "handle_bot_message")

\* a GIF search found nothing and fell back to a random GIF, which was sent as
\* the one reply
C14_Witness ==
    \E i \in TaskIds :
        /\ tasks[i].handler = "handle_gif_search"
        /\ Len(tasks[i].calls) = 2
        /\ tasks[i].calls[1].result = "empty"
        /\ tasks[i].calls[2].exec = "gif_random"
        /\ tasks[i].pc = "done"
        /\ Len(tasks[i].replies) = 1
        /\ tasks[i].replies[1].kind = "url"

\* ---- C15: the order of on_message's tests (checked under SpecDispatch)

\* The rules in the order the claim gives, each with the action it selects and
\* whether the message satisfies it, given whether its channel is listed in the
\* registry.  The gate is the rule that ignores a message of a guild channel
\* that is not listed, the rule before the
\* natural-language commands the one that ignores a message that is not
\* directed at the bot, and the last rule holds of every message.
DispatchRules(message, listed) ==
    LET text == lower(message.content)
    IN  <<[action |-> "SetChannel", holds |-> startswith(text, TokSetChannel)],
          [action |-> "SetLanguage", holds |-> startswith(text, TokSetLanguage)],
          [action |-> "Ignore", holds |-> message.guild /\ ~listed],
          [action |-> "SearchGif", holds |-> startswith(text, TokGif)],
          [action |-> "GenerateImage", holds |-> startswith(text, TokImg)],
          [action |-> "Ignore", holds |-> ~is_message_directed_at_bot(message)],
          [action |-> "SetOpinion", holds |-> startswith(text, TokSetOpinion)],
          [action |-> "GetOpinion",
           holds |-> startswith(text, TokLumWhat) /\ contains(text, TokYourOpinionOn)],
          [action |-> "GenerateImage", holds |-> generate_prompt(text) # <<>>],
          [action |-> "SearchGif",
           holds |-> contains(text, TokWithAGif) \/ contains(text, TokAsAGif)],
          [action |-> "RandomGif",
           holds |-> contains(text, TokGiveMe) /\ contains(text, TokRandomGif)],
          [action |-> "Converse", holds |-> TRUE]>>

\* the numbers of the rules a message satisfies
RulesMet(message, listed) ==
    LET rules == DispatchRules(message, listed)
    IN  {k \in 1..Len(rules) : rules[k].holds}

\* the action of the earliest rule a message satisfies, for every message of
\* SpecDispatch, its channel listed or not
ActionDue ==
    Tabled([message \in DispatchMessages |->
        Tabled([listed \in BOOLEAN |->
            LET rules == DispatchRules(message, listed)
            IN  rules[Min({k \in 1..Len(rules) : rules[k].holds})].action])])

\* the action a handler carries out; the reply of on_message to an empty query
\* ends a GIF search
ActionOf(handler) ==
    CASE handler = "return" -> "Ignore"
      [] handler = "hint" -> "SearchGif"
      [] handler = "handle_set_channel" -> "SetChannel"
      [] handler = "handle_set_language" -> "SetLanguage"
      [] handler = "handle_set_opinion" -> "SetOpinion"
      [] handler = "handle_get_opinion" -> "GetOpinion"
      [] handler = "handle_image_generation" -> "GenerateImage"
      [] handler = "handle_gif_search" -> "SearchGif"
      [] handler = "handle_random_gif" -> "RandomGif"
      [] handler = "handle_bot_message" -> "Converse"

\* C15: the action taken for a user's message is the action of the earliest
\* rule, in the order SetChannel, SetLanguage, gate, "!gif", "!img", then for
\* a message directed at the bot set-opinion, get-opinion, generate, GIF
\* phrase, random GIF, conversation, that the message satisfies.
C15_FirstMatchInOrder ==
    [][(Arrives /\ ~Arrived.msg.bot) =>
          ActionOf(Arrived.handler) = ActionDue[Arrived.msg][Arrived.msg.channel \in DOMAIN allowed_channels]]_vars

\* a command token went before the natural-language command the text holds as
\* well, a natural-language command before a later one, and a text that holds
\* one without being directed at the bot was ignored in a registered channel
C15_Witness ==
    \E i, j \in TaskIds :
        /\ tasks[i].msg.content = DispatchGifGenerate
        /\ tasks[i].msg.dm
        /\ tasks[i].handler = "handle_gif_search"
        /\ \/ /\ tasks[j].msg.content = DispatchGenerateGif
              /\ tasks[j].handler = "handle_image_generation"
              /\ Cardinality(RulesMet(tasks[j].msg, tasks[j].listed)) >= 3
           \/ /\ tasks[j].msg.content = DispatchPleaseGenerate
              /\ tasks[j].listed
              /\ ~tasks[j].msg.mention
              /\ tasks[j].handler = "return"

\* ---- C16: the history a conversation sends (checked under SpecConverse)

\* the user turn handle_bot_message inserts for a message
UserTurn(message) ==
    [user_id |-> message.author, role |-> "user", content |-> strip(lower(message.content))]

\* C16: the request of handle_bot_message for a message of user u carries the
\* last turns of u in conversation_history, the user turn of the message
\* included, in the order of their insertion: ten at most, no turn of another
\* user, and the user turn of the message last.
C16_ContextIsOwnRecentTurns ==
    [][\A i \in TaskIds :
          (tasks[i].pc = "typing_bot" /\ tasks'[i].pc # "typing_bot") =>
              LET message == tasks[i].msg
                  sent == tasks'[i].calls[Len(tasks'[i].calls)].history
                  log == Append(conversation_history, UserTurn(message))
              IN  /\ sent = LastTurnsOf(log, message.author, 10)
                  /\ Len(sent) <= 10
                  /\ sent[Len(sent)] =
                        [role |-> "user", content |-> UserTurn(message).content]]_vars

\* a request carried ten turns, fewer than the user has, after a conversation
\* of the other user had written its turns
C16_Witness ==
    \E i, j \in TaskIds :
        /\ tasks[i].handler = "handle_bot_message"
        /\ tasks[j].handler = "handle_bot_message"
        /\ tasks[i].msg.author # tasks[j].msg.author
        /\ Len(tasks[j].rows) = 2
        /\ tasks[i].rows # <<>>
        /\ tasks[j].rows[2] < tasks[i].rows[1]
        /\ Len(tasks[i].calls[1].history) = 10
        /\ Cardinality({k \in 1..Len(conversation_history) :
                           conversation_history[k].user_id = tasks[i].msg.author}) > 10

\* ---- C19: the rows of one conversation stay together (checked under SpecConverse)

\* C19: in conversation_history every assistant turn stands right after a user
\* turn of the same user, so no two assistant turns are neighbours; and the
\* rows a task inserted are its user turn and, right after it, its assistant
\* turn, with no row of another message between them.
C19_AssistantFollowsOwnUserTurn ==
    /\ \A k \in 1..Len(conversation_history) :
          conversation_history[k].role = "assistant" =>
              /\ k > 1
              /\ conversation_history[k - 1].role = "user"
              /\ conversation_history[k - 1].user_id = conversation_history[k].user_id
    /\ \A i \in TaskIds :
          tasks[i].rows # <<>> =>
              /\ conversation_history[tasks[i].rows[1]] = UserTurn(tasks[i].msg)
              /\ Len(tasks[i].rows) = 2 =>
                    /\ tasks[i].rows[2] = tasks[i].rows[1] + 1
                    /\ conversation_history[tasks[i].rows[2]].role = "assistant"
                    /\ conversation_history[tasks[i].rows[2]].user_id = tasks[i].msg.author

\* two conversations of two users, suspended at the same time, wrote their
\* turns one after the other
C19_Witness ==
    \E i, j \in TaskIds :
        /\ i < j
        /\ tasks[i].msg.author # tasks[j].msg.author
        /\ Len(tasks[i].rows) = 2
        /\ Len(tasks[j].rows) = 2
        /\ tasks[j].rows[2] < tasks[i].rows[1]
        /\ tasks[i].pc = "done"
        /\ tasks[j].pc = "done"

\* ---- C17: the opinion set is the opinion told (checked under SpecOpinion)

\* the task set the opinion on a subject: it replied that it did
SetsOpinion(t) ==
    /\ t.handler = "handle_set_opinion"
    /\ t.replies # <<>>
    /\ t.replies[1].kind = "opinion_set"

\* C17: a SetOpinion for a subject writes its opinion over what is stored for
\* the subject; and a GetOpinion for a subject that a SetOpinion was handled
\* for, with no SetOpinion for the subject after that one, replies with that
\* SetOpinion's opinion, calls no executor and writes nothing.
C17_SetOpinionIsTold ==
    [][/\ (Arrives /\ SetsOpinion(Arrived)) =>
             /\ Arrived.replies[1].about \in DOMAIN lum_preferences'
             /\ lum_preferences'[Arrived.replies[1].about] = Arrived.replies[1].text
       /\ \A i \in TaskIds :
             (/\ SetsOpinion(tasks[i])
              /\ Arrives
              /\ Arrived.handler = "handle_get_opinion"
              /\ get_opinion_matches[Arrived.msg.content].ok
              /\ SubjectAsked[Arrived.msg.content] = tasks[i].replies[1].about
              /\ \A j \in TaskIds :
                    (j > i /\ SetsOpinion(tasks[j]))
                        => tasks[j].replies[1].about # tasks[i].replies[1].about) =>
                 /\ Arrived.calls = <<>>
                 /\ Arrived.replies =
                       <<Reply("opinion", tasks[i].replies[1].about, tasks[i].replies[1].text)>>
                 /\ lum_preferences' = lum_preferences]_vars

\* ---- C18: the key "language" (checked under SpecOpinion)

\* the value stored under the key "language"; None when there is none
LanguageStored(prefs) ==
    IF KeyLanguage \in DOMAIN prefs THEN Some(prefs[KeyLanguage]) ELSE None

\* C18: the entry "language" of lum_preferences is created or changed only by
\* the step of a message that handle_set_language handles, whatever subject a
\* SetOpinion or a GetOpinion names.
C18_LanguageOnlyBySetLanguage ==
    [][LanguageStored(lum_preferences') # LanguageStored(lum_preferences) =>
          (Arrives /\ Arrived.handler = "handle_set_language")]_vars

\* ---- C20: user_memory is never written

\* C20: no step changes user_memory, so every entry keeps the value the run
\* started with; and a request of handle_bot_message names the user only when
\* user_memory holds a "user_name" of the user, and then by that value.
C20_MemoryNeverWritten ==
    [][/\ user_memory' = user_memory
       /\ \A i \in TaskIds :
             (tasks[i].pc = "typing_bot" /\ tasks'[i].pc # "typing_bot") =>
                 LET name == tasks'[i].calls[Len(tasks'[i].calls)].name
                     key == <<tasks[i].msg.author, KeyUserName>>
                 IN  name # <<>> => (key \in DOMAIN user_memory /\ name = user_memory[key])]_vars

\* after a message that wrote lum_preferences, a conversation named the user by
\* the name stored before the run
C20_Witness ==
    \E i, j \in TaskIds :
        /\ i < j
        /\ tasks[i].handler \in {"handle_set_language", "handle_set_opinion"}
        /\ tasks[i].replies[1].kind # "hint"
        /\ tasks[j].handler = "handle_bot_message"
        /\ tasks[j].calls # <<>>
        /\ tasks[j].calls[1].name = EarlierRun.memory[<<"u1", KeyUserName>>]
        /\ user_memory = EarlierRun.memory

====
